---- MODULE Spec2Model ----
(***************************************************************************)
(* Model of backend/src/services/llm_service.py: LLMService.generate_sql   *)
(* and the response validator LLMService._validate_and_clean_sql.          *)
(*                                                                         *)
(* Texts are TLA+ strings; Len, \o and SubSeq act on them character by     *)
(* character.  A TLA+ string literal cannot hold the backquote character,  *)
(* so the backquote of a Markdown code fence is written "~" throughout     *)
(* (the fence of three backquotes is "~~~"); no modelled text uses "~"     *)
(* for anything else.                                                      *)
(***************************************************************************)
EXTENDS Integers, Sequences, FiniteSets, TLC

VARIABLES
    env_api_key,      \* os.getenv("OPENROUTER_API_KEY"), None when unset
    env_openai_key,   \* whether OPENAI_API_KEY is set (the client's fallback)
    api_configured,   \* self.api_configured
    pc,               \* position of the program
    table_context,    \* the table_context argument of the request
    question,         \* natural_language_query of the request
    rag_context,      \* local of generate_sql
    prompts,          \* (system_prompt, user_prompt)
    trace,            \* the stages generate_sql has entered, in order
    llm_calls,        \* number of calls of _call_llm in this request
    raw,              \* the argument sql_query of _validate_and_clean_sql
    sql_query,        \* the local sql_query as the validator rewrites it
    err,              \* message of the exception raised, "" when none
    result,           \* value returned, None when none
    run,              \* 1: the validator runs inside generate_sql;
                      \* 2: it runs again, directly, on its own result
    first_result      \* the value run 1 returned, None before

vars == <<env_api_key, env_openai_key, api_configured, pc, table_context, question,
          rag_context, prompts, trace, llm_calls, raw, sql_query, err, result,
          run, first_result>>

\* Python's None (no modelled text equals it).
None == "<None>"

-----------------------------------------------------------------------------
(* str primitives *)

Ch(s, i) == SubSeq(s, i, i)

\* str.isspace() on the modelled alphabet.
IsSpace(c) == c \in {" ", "\n", "\t"}

LowerLetters == "abcdefghijklmnopqrstuvwxyz"
UpperLetters == "ABCDEFGHIJKLMNOPQRSTUVWXYZ"
Digits == "0123456789"

UpperMap == [c \in {Ch(LowerLetters, i) : i \in 1..26} |->
               Ch(UpperLetters, CHOOSE i \in 1..26 : Ch(LowerLetters, i) = c)]
LowerMap == [c \in {Ch(UpperLetters, i) : i \in 1..26} |->
               Ch(LowerLetters, CHOOSE i \in 1..26 : Ch(UpperLetters, i) = c)]
WordChars == {Ch(LowerLetters, i) : i \in 1..26} \cup {Ch(UpperLetters, i) : i \in 1..26}
                \cup {Ch(Digits, i) : i \in 1..10} \cup {"_"}

\* A character the regex class \w matches.
IsWordChar(c) == c \in WordChars

RECURSIVE MapChars(_, _)
MapChars(f, s) ==
    IF s = "" THEN ""
    ELSE LET c == Ch(s, 1)
         IN (IF c \in DOMAIN f THEN f[c] ELSE c) \o MapChars(f, SubSeq(s, 2, Len(s)))

\* str.upper() and str.lower().
Upper(s) == MapChars(UpperMap, s)
Lower(s) == MapChars(LowerMap, s)

StartsWith(s, p) == Len(s) >= Len(p) /\ SubSeq(s, 1, Len(p)) = p
EndsWith(s, p) == Len(s) >= Len(p) /\ SubSeq(s, Len(s) - Len(p) + 1, Len(s)) = p

\* The 1-based places where p occurs in s.
Occurrences(s, p) == {i \in 1..(Len(s) - Len(p) + 1) : SubSeq(s, i, i + Len(p) - 1) = p}

\* p in s
Contains(s, p) == Occurrences(s, p) # {}

\* str.find: the 0-based index of the first occurrence of p in s, or -1.
Find(s, p) ==
    LET occ == Occurrences(s, p)
    IN IF occ = {} THEN -1 ELSE (CHOOSE i \in occ : \A j \in occ : i <= j) - 1

\* s[k:] for a 0-based k >= 0.
From(s, k) == SubSeq(s, k + 1, Len(s))

\* s.count(c) for a character c.
Count(s, c) == Cardinality({i \in 1..Len(s) : Ch(s, i) = c})

RECURSIVE LStrip(_)
LStrip(s) == IF s # "" /\ IsSpace(Ch(s, 1)) THEN LStrip(SubSeq(s, 2, Len(s))) ELSE s

RECURSIVE RStrip(_)
RStrip(s) == IF s # "" /\ IsSpace(Ch(s, Len(s))) THEN RStrip(SubSeq(s, 1, Len(s) - 1)) ELSE s

\* str.strip()
Strip(s) == RStrip(LStrip(s))

\* str.split(sep) for a one-character sep: the fragments, empty ones included.
RECURSIVE Split(_, _)
Split(s, sep) ==
    LET k == Find(s, sep)
    IN IF k = -1 THEN <<s>> ELSE <<SubSeq(s, 1, k)>> \o Split(From(s, k + 1), sep)

\* str.split(): the maximal runs of non-whitespace characters.
RECURSIVE SplitWs(_)
SplitWs(s) ==
    LET t == LStrip(s)
        ws == {i \in 1..Len(t) : IsSpace(Ch(t, i))}
        e == IF ws = {} THEN Len(t) + 1 ELSE CHOOSE i \in ws : \A j \in ws : i <= j
    IN IF t = "" THEN <<>> ELSE <<SubSeq(t, 1, e - 1)>> \o SplitWs(SubSeq(t, e, Len(t)))

\* sep.join(parts)
RECURSIVE Join(_, _)
Join(parts, sep) ==
    IF parts = <<>> THEN ""
    ELSE IF Len(parts) = 1 THEN parts[1]
    ELSE parts[1] \o sep \o Join(Tail(parts), sep)

\* re.sub(r"<[^>]+>", "", s): leftmost matches, each "<", one or more
\* characters other than ">", then ">".
RECURSIVE ReSubTags(_)
ReSubTags(s) ==
    IF s = "" THEN ""
    ELSE IF Ch(s, 1) # "<" THEN Ch(s, 1) \o ReSubTags(SubSeq(s, 2, Len(s)))
    ELSE LET k == Find(s, ">")     \* 0-based; the "<" is at 0
         IN IF k >= 2 THEN ReSubTags(From(s, k + 1))
            ELSE "<" \o ReSubTags(SubSeq(s, 2, Len(s)))

\* ReSearchWord without the \b anchors: a plain substring search.
ReSearchSubstring(keyword, s) == Contains(s, keyword)

\* re.search(r"\b" + re.escape(keyword) + r"\b", s) for a keyword of word
\* characters: an occurrence with no word character on either side.
ReSearchWord(keyword, s) ==
    \E i \in Occurrences(s, keyword) :
        /\ (i = 1 \/ ~IsWordChar(Ch(s, i - 1)))
        /\ (i + Len(keyword) - 1 = Len(s) \/ ~IsWordChar(Ch(s, i + Len(keyword))))

-----------------------------------------------------------------------------
(* _validate_and_clean_sql, statement by statement *)

INVALID_REQUEST == "INVALID_REQUEST"
OUT_OF_SCOPE == "OUT_OF_SCOPE"

ErrInvalidRequest ==
    "The request could not be translated to a valid SQL query. Please rephrase your question."
ErrOutOfScope ==
    "This request is outside the scope of SQL query generation. Please ask a question about your data."
ErrDangerous(keyword) ==
    "Dangerous SQL operation detected: " \o keyword \o ". Only SELECT queries are allowed."
ErrOnlySelect == "Only SELECT queries are allowed."
ErrUnsafePattern(pattern) == "Potentially unsafe SQL pattern detected: " \o pattern
ErrTableRef(tn) == "Query must reference the table '" \o tn \o "'"
ErrParens == "SQL query has unbalanced parentheses"

\* SentinelError with the second literal misspelt.
SentinelErrorMisspelt(s) ==
    IF s = INVALID_REQUEST THEN ErrInvalidRequest
    ELSE IF s = "OUT OF SCOPE" THEN ErrOutOfScope
    ELSE ""

\* The message the two sentinel tests raise on the stripped text, "" when
\* neither does.
SentinelError(s) ==
    IF s = INVALID_REQUEST THEN ErrInvalidRequest
    ELSE IF s = OUT_OF_SCOPE THEN ErrOutOfScope
    ELSE ""

FenceSql == "~~~sql"
Fence == "~~~"
ThinkOpen == "<thinking>"
ThinkClose == "</thinking>"

\* The number of characters the loop skips from the start of the closer.
ThinkSkip == 12

prefixes_to_remove ==
    << "Query:", "SQL:", "Answer:", "Result:", "The query is:", "The SQL query is:",
       "Here's the query:", "Here is the query:" >>

dangerous_keywords ==
    << "DROP", "DELETE", "UPDATE", "INSERT", "ALTER", "CREATE", "TRUNCATE", "EXEC",
       "EXECUTE", "ATTACH", "DETACH", "PRAGMA", "VACUUM" >>

injection_patterns == << "xp_", "sp_", "@@" >>

\* The three startswith/endswith tests on the code fence, in order.
StripFences(s) ==
    LET a == IF StartsWith(s, FenceSql) THEN From(s, 6) ELSE s
        b == IF StartsWith(a, Fence) THEN From(a, 3) ELSE a
    IN IF EndsWith(b, Fence) THEN SubSeq(b, 1, Len(b) - 3) ELSE b

\* One iteration of the body of `while "<thinking>" in sql_query`.
ThinkingStep(s) ==
    LET start_thinking == Find(s, ThinkOpen)
        end_thinking == Find(s, ThinkClose)
    IN IF end_thinking # -1
       THEN SubSeq(s, 1, start_thinking) \o From(s, end_thinking + ThinkSkip)
       ELSE SubSeq(s, 1, start_thinking)

\* Whether that iteration leaves the loop by its break.
ThinkingBreaks(s) == Find(s, ThinkClose) = -1

\* The for loop over prefixes_to_remove, from the i-th prefix on.
RECURSIVE StripPrefixesFrom(_, _)
StripPrefixesFrom(s, i) ==
    IF i > Len(prefixes_to_remove) THEN s
    ELSE LET prefix == prefixes_to_remove[i]
         IN IF StartsWith(Lower(s), Lower(prefix))
            THEN StripPrefixesFrom(Strip(From(s, Len(prefix))), i + 1)
            ELSE StripPrefixesFrom(s, i + 1)

StripPrefixes(s) == Strip(StripPrefixesFrom(s, 1))

\* RestoreSelect without its startswith test.
RestoreSelectAlways(s) == "SELECT " \o s

\* RestoreSelect prepending nothing.
RestoreSelectNever(s) == s

\* Prepend "SELECT " when the text does not start with SELECT.
RestoreSelect(s) == IF ~StartsWith(Upper(s), "SELECT") THEN "SELECT " \o s ELSE s

\* [stmt.strip() for stmt in sql_query.split(";") if stmt.strip()]
statements(s) ==
    LET parts == Split(s, ";")
    IN [i \in 1..Len(SelectSeq(parts, LAMBDA f : Strip(f) # "")) |->
            Strip(SelectSeq(parts, LAMBDA f : Strip(f) # "")[i])]

\* FirstStatement taking statements[-1].
FirstStatementTakesLast(s) ==
    IF Contains(s, ";")
    THEN LET st == statements(s)
         IN IF st # <<>>
            THEN (IF ~EndsWith(st[Len(st)], ";") THEN st[Len(st)] \o ";" ELSE st[Len(st)])
            ELSE s
    ELSE s

\* Take only the first statement.
FirstStatement(s) ==
    IF Contains(s, ";")
    THEN LET st == statements(s)
         IN IF st # <<>>
            THEN (IF ~EndsWith(st[1], ";") THEN st[1] \o ";" ELSE st[1])
            ELSE s
    ELSE s

\* " ".join(sql_query.split())
NormalizeWs(s) == Join(SplitWs(s), " ")

\* The keywords of dangerous_keywords the word-bounded search finds in sql_upper.
KeywordHits(sql_upper) ==
    {i \in 1..Len(dangerous_keywords) : ReSearchWord(dangerous_keywords[i], sql_upper)}

\* The injection patterns found in the lower-cased text.
PatternHits(s) ==
    {i \in 1..Len(injection_patterns) : Contains(Lower(s), Lower(injection_patterns[i]))}

\* The first index of a non-empty set of list positions: the one the for loop
\* raises on.
FirstOf(S) == CHOOSE i \in S : \A j \in S : i <= j

\* table_name.lower() in sql_query.lower()
ReferencesTable(s, tn) == Contains(Lower(s), Lower(tn))

\* EnsureSemicolon without its endswith test.
EnsureSemicolonAlways(s) == s \o ";"

EnsureSemicolon(s) == IF ~EndsWith(s, ";") THEN s \o ";" ELSE s

BalancedParens(s) == Count(s, "(") = Count(s, ")")

-----------------------------------------------------------------------------
(* Bounds and inputs *)

\* A raw text handed to the validator is made of at most MaxPieces pieces.
MaxPieces == 2

\* The thinking-block loop is followed while its text stays within MaxText
\* characters (a longer text it shortens is followed too).
MaxText == 80

\* What model output is made of: statements, clauses, wrappers, sentinels.
Pieces ==
    { "SELECT * FROM t", "select count(id) from orders", "SELECT * FROM other_table",
      "* FROM t", " WHERE a < 1 AND b > 2", " WHERE c = 'x;y'", " WHERE exp_date = 1",
      " WHERE n = 'create new record'", " ORDER BY created_at, updated_by, dropdown",
      " WHERE (a = 1", ";", "\n", "; DROP TABLE t;", "CREATE TABLE x", "WITH",
      "~~~sql\n", "~~~", "<thinking>", "</thinking>", "query: ",
      "INVALID_REQUEST", "OUT_OF_SCOPE" }

RECURSIVE Texts(_)
Texts(n) == IF n = 0 THEN {""} ELSE {""} \cup {p \o t : p \in Pieces, t \in Texts(n - 1)}

\* Every blocked keyword as a word of its own, in both cases, and inside
\* longer identifiers (a word character before it, after it, or both).
KeywordWords ==
    UNION { { dangerous_keywords[i], Lower(dangerous_keywords[i]),
              dangerous_keywords[i] \o "_at", Lower(dangerous_keywords[i]) \o "d",
              "x" \o dangerous_keywords[i], "re" \o Lower(dangerous_keywords[i]) \o "2" }
            : i \in 1..Len(dangerous_keywords) }

KeywordStatements == { "SELECT " \o w \o " FROM t" : w \in KeywordWords }

\* Replies with reasoning blocks: a block before the statement, with and
\* without a line break between them; two blocks; a closer, one character and
\* an opener.
ThinkingInputs ==
    { "<thinking>plan</thinking>SELECT * FROM t",
      "<thinking>plan</thinking>\nSELECT * FROM t",
      "<thinking>a</thinking>\n<thinking>b</thinking>\nSELECT * FROM t",
      "</thinking>\n<thinking>" }

\* The raw texts the validator is run on.
RawInputs == Texts(MaxPieces) \cup KeywordStatements \cup ThinkingInputs

\* The message contents the model returns inside generate_sql.
Replies == Texts(1) \cup { "~~~sql\nSELECT * FROM t\n~~~", "SELECT * FROM t; DROP TABLE t;" }

TableContexts ==
    { [table_name |-> "t", columns |-> <<>>, sample_data |-> <<>>, row_count |-> 0],
      [table_name |-> "orders",
       columns |-> << [name |-> "id", type |-> "INTEGER"], [name |-> "region", type |-> "text"] >>,
       sample_data |-> <<>>, row_count |-> 0] }

\* Python values of a table context: a str, a number (by its str() text), None.
PyStr(s) == [kind |-> "str", text |-> s]
PyNum(t) == [kind |-> "num", text |-> t]
PyNone == [kind |-> "none", text |-> "None"]

\* Sample rows: a dict (its items in insertion order) or a list.
Item(k, v) == [key |-> k, value |-> v]
PyDict(items) == [kind |-> "dict", items |-> items]
PyList(items) == [kind |-> "list", items |-> items]

\* Table contexts with sample rows: the scenario of one row; seven rows with
\* six distinct values in a string column; rows that are short, carry a key
\* that is no column, are no row at all, or hold None or blank values; a
\* column whose declared type is null.
SampleContexts ==
    { [table_name |-> "sales_ab12cd34",
       columns |-> << [name |-> "region", type |-> "TEXT"], [name |-> "amount", type |-> "REAL"] >>,
       sample_data |-> << PyDict(<< Item("region", PyStr("West")), Item("amount", PyNum("100.0")) >>) >>,
       row_count |-> 1],
      [table_name |-> "orders",
       columns |-> << [name |-> "id", type |-> "INTEGER"], [name |-> "region", type |-> "text"] >>,
       sample_data |->
           << PyDict(<< Item("id", PyNum("1")), Item("region", PyStr("West")) >>),
              PyDict(<< Item("id", PyNum("2")), Item("region", PyStr("East")) >>),
              PyDict(<< Item("id", PyNum("3")), Item("region", PyStr("North")) >>),
              PyDict(<< Item("id", PyNum("4")), Item("region", PyStr("South")) >>),
              PyDict(<< Item("id", PyNum("5")), Item("region", PyStr("Central")) >>),
              PyDict(<< Item("id", PyNum("6")), Item("region", PyStr("Export")) >>),
              PyDict(<< Item("id", PyNum("7")), Item("region", PyStr("West")) >>) >>,
       row_count |-> 7],
      [table_name |-> "t",
       columns |-> << [name |-> "region", type |-> "VARCHAR"], [name |-> "amount", type |-> "REAL"] >>,
       sample_data |->
           << PyList(<< PyStr("West") >>),
              PyDict(<< Item("region", PyStr("North")), Item("zone", PyNum("1")) >>),
              PyNone,
              PyList(<< PyStr("East"), PyNum("5") >>),
              PyDict(<< Item("region", PyNone) >>),
              PyDict(<< Item("region", PyStr("  ")), Item("amount", PyNum("2")) >>) >>,
       row_count |-> 6],
      [table_name |-> "t",
       columns |-> << [name |-> "id", type |-> None] >>,
       sample_data |-> << PyDict(<< Item("id", PyNum("1")) >>) >>,
       row_count |-> 1] }

Questions == { "total amount in the west" }

\* OPENROUTER_API_KEY: unset, empty, the placeholder, a key.
ApiKeys == { None, "", "placeholder_key", "sk-or-v1" }

table_name == table_context.table_name

-----------------------------------------------------------------------------
(* LLMService.__init__ and generate_sql *)

ErrNotConfigured ==
    "LLM API is not configured. Please set OPENROUTER_API_KEY in your .env file. "
    \o "For now, the file upload will work but you won't be able to query the data."
ErrCallFailed(e) == "LLM API call failed: " \o e

\* What the provider call can raise; the last is the .strip() of a reply
\* whose content is None.
CallErrors == { "Connection error.", "'NoneType' object has no attribute 'strip'" }

\* str(n) of a natural number.
RECURSIVE ToStr(_)
ToStr(n) == IF n < 10 THEN Ch(Digits, n + 1) ELSE ToStr(n \div 10) \o Ch(Digits, (n % 10) + 1)

Min2(a, b) == IF a <= b THEN a ELSE b

\* repr() of a str without quote characters, of a number, of None.
Repr(v) == IF v.kind = "str" THEN "'" \o v.text \o "'" ELSE v.text

\* str() of a row or a value, as f"{row}" and str(value) give it.
Str(x) ==
    IF x.kind = "dict"
    THEN "{" \o Join([i \in 1..Len(x.items) |->
                        "'" \o x.items[i].key \o "': " \o Repr(x.items[i].value)], ", ") \o "}"
    ELSE IF x.kind = "list"
    THEN "[" \o Join([i \in 1..Len(x.items) |-> Repr(x.items[i])], ", ") \o "]"
    ELSE x.text

\* sample_data[:3], sample_data[:10] and unique_values[:5]
RowWindow == 3
ValueWindow == 10
MaxUniqueShown == 5

\* The lines of the column loop, from the i-th column on.
RECURSIVE ColumnLines(_, _)
ColumnLines(columns, i) ==
    IF i > Len(columns) THEN ""
    ELSE LET col == columns[i]
         IN "- " \o col.name \o " (" \o col.type \o ")"
            \o (IF Upper(col.type) \in {"TEXT", "VARCHAR", "CHAR", "STRING"}
                THEN " [STRING - supports fuzzy matching]" ELSE "")
            \o "\n" \o ColumnLines(columns, i + 1)

\* The names of the columns the column loop appends to string_columns.
string_columns(columns) ==
    LET strings == SelectSeq(columns, LAMBDA col :
                       Upper(col.type) \in {"TEXT", "VARCHAR", "CHAR", "STRING"})
    IN [i \in 1..Len(strings) |-> strings[i].name]

\* The line of the i-th sample row: a list as long as the columns is shown as
\* the dict of column name to value, any other row as it prints.
RowLine(columns, row, i) ==
    "Row " \o ToStr(i) \o ": "
    \o (IF row.kind = "list" /\ Len(row.items) >= Len(columns)
        THEN Str(PyDict([j \in 1..Len(columns) |-> Item(columns[j].name, row.items[j])]))
        ELSE Str(row))
    \o "\n"

RECURSIVE RowLines(_, _, _)
RowLines(columns, sample_data, i) ==
    IF i > Min2(RowWindow, Len(sample_data)) THEN ""
    ELSE RowLine(columns, sample_data[i], i) \o RowLines(columns, sample_data, i + 1)

\* The value a row holds for the column: row[col_index] of a list that long,
\* row[col_name] of a dict with that key (col_index counts from 1 here).
ValueAt(row, col_index, col_name) ==
    IF row.kind = "list"
    THEN (IF col_index <= Len(row.items) THEN {row.items[col_index]} ELSE {})
    ELSE IF row.kind = "dict"
    THEN {row.items[i].value : i \in {j \in 1..Len(row.items) : row.items[j].key = col_name}}
    ELSE {}

\* set(sample_values): str(value) of the values of the column in
\* sample_data[:10] that are not None and not blank.
sample_values(tc, col_name) ==
    LET col_index == CHOOSE i \in 1..Len(tc.columns) :
                        /\ tc.columns[i].name = col_name
                        /\ \A j \in 1..(i - 1) : tc.columns[j].name # col_name
        found == UNION {ValueAt(tc.sample_data[k], col_index, col_name)
                          : k \in 1..Min2(ValueWindow, Len(tc.sample_data))}
    IN {Str(value) : value \in {v \in found : v.kind # "none" /\ Strip(Str(v)) # ""}}

\* list(a set of str): its elements in the order the set is iterated.  That
\* order follows the hash of each str, which the interpreter salts with a seed
\* it draws when the process starts; order is the order of that process.
ListOfSet(values, order) == SelectSeq(order, LAMBDA v : v \in values)

\* The lines of the string-value loop, from the i-th string column on.
RECURSIVE StringValueLines(_, _, _)
StringValueLines(tc, i, order) ==
    IF i > Len(string_columns(tc.columns)) THEN ""
    ELSE LET col_name == string_columns(tc.columns)[i]
             unique_values == ListOfSet(sample_values(tc, col_name), order)
         IN (IF unique_values # <<>>
             THEN "- " \o col_name \o ": "
                  \o Join(SubSeq(unique_values, 1, Min2(MaxUniqueShown, Len(unique_values))), ", ")
                  \o (IF Len(unique_values) > MaxUniqueShown THEN "..." ELSE "")
                  \o "\n"
             ELSE "")
            \o StringValueLines(tc, i + 1, order)

\* The except branch of _build_rag_context.
FallbackContext(tc) ==
    "Table: " \o tc.table_name \o "\nTotal rows: " \o ToStr(tc.row_count) \o "\n\nColumns: "
    \o Join([i \in 1..Len(tc.columns) |->
                "{'name': '" \o tc.columns[i].name \o "', 'type': "
                \o (IF tc.columns[i].type = None THEN "None"
                    ELSE "'" \o tc.columns[i].type \o "'") \o "}"], ", ")
    \o "\n\nNote: Error occurred while building detailed context. Using basic fallback."

\* The try block of _build_rag_context: col_type.upper() raises on a type that
\* is None; nothing else raises on the values above.
TryBuildRagContext(tc, order) ==
    IF \E i \in 1..Len(tc.columns) : tc.columns[i].type = None
    THEN [raised |-> TRUE, value |-> "'NoneType' object has no attribute 'upper'"]
    ELSE [raised |-> FALSE,
          value |->
            "Table: " \o tc.table_name \o "\nTotal rows: " \o ToStr(tc.row_count)
            \o "\n\nColumns:\n"
            \o ColumnLines(tc.columns, 1)
            \o "\nSample data (first " \o ToStr(Min2(RowWindow, Len(tc.sample_data))) \o " rows):\n"
            \o RowLines(tc.columns, tc.sample_data, 1)
            \o (IF string_columns(tc.columns) # <<>> /\ tc.sample_data # <<>>
                THEN "\nString values found in data (for typo detection):\n"
                     \o StringValueLines(tc, 1, order)
                ELSE "")]

\* BuildRagContext without its except branch.
BuildRagContextUnguarded(tc, order) == TryBuildRagContext(tc, order)

\* _build_rag_context: the context of the try block, the fallback when it raised.
BuildRagContext(tc, order) ==
    LET built == TryBuildRagContext(tc, order)
    IN IF built.raised THEN [raised |-> FALSE, value |-> FallbackContext(tc)] ELSE built

\* The str values of the string columns of the modelled contexts, and the
\* orders a process can iterate a set of them in.
SampleStrings ==
    UNION {UNION {sample_values(tc, string_columns(tc.columns)[i])
                    : i \in 1..Len(string_columns(tc.columns))}
             : tc \in TableContexts \cup SampleContexts}

HashOrders ==
    {order \in [1..Cardinality(SampleStrings) -> SampleStrings] :
        \A i, j \in 1..Cardinality(SampleStrings) : i # j => order[i] # order[j]}

\* The policy text: a literal of the source (its first and last lines here).
SystemPrompt ==
    "You are SQLExpert, a specialized AI assistant for generating safe, accurate SQLite "
    \o "queries from natural language.\n...\nIf unclear/unsafe: respond \"INVALID_REQUEST\"\n"
    \o "If outside SQL scope: respond \"OUT_OF_SCOPE\" "

\* The f-string of the user prompt (the fixed lines of its thinking block
\* shortened to the first), ending in the seeded SELECT.
UserPrompt(q, context) ==
    "TABLE CONTEXT:\n" \o context \o "\n\nUSER QUESTION: " \o q
    \o "\n\n<thinking>\nLet me analyze this step by step:\n...\nLooking at the question \""
    \o q \o "\" and the sample data above:\n...\n</thinking>\n\nSELECT"

\* __init__: OpenAI(api_key=None) takes OPENAI_API_KEY from the environment and
\* raises when that is unset too; any other api_key makes a client.
Construct ==
    /\ pc = "init"
    /\ IF env_api_key = None /\ ~env_openai_key
       THEN pc' = "init_failed" /\ UNCHANGED api_configured
       ELSE pc' = "ready" /\ api_configured' = (env_api_key # "placeholder_key")
    /\ UNCHANGED <<env_api_key, env_openai_key, table_context, question, rag_context,
                   prompts, trace, llm_calls, raw, sql_query, err, result, run, first_result>>

\* A request enters generate_sql.
GenerateSql ==
    /\ pc = "ready"
    /\ pc' = "g_check"
    /\ UNCHANGED <<env_api_key, env_openai_key, api_configured, table_context, question,
                   rag_context, prompts, trace, llm_calls, raw, sql_query, err, result,
                   run, first_result>>

\* if not self.api_configured: raise ValueError(...), re-raised by the except.
CheckConfigured ==
    /\ pc = "g_check"
    /\ IF ~api_configured
       THEN pc' = "raised" /\ err' = ErrNotConfigured
       ELSE pc' = "g_context" /\ UNCHANGED err
    /\ UNCHANGED <<env_api_key, env_openai_key, api_configured, table_context, question,
                   rag_context, prompts, trace, llm_calls, raw, sql_query, result,
                   run, first_result>>

\* Step 1; an exception of _build_rag_context would reach the except of
\* generate_sql, which raises it again.
BuildContext ==
    /\ pc = "g_context"
    /\ trace' = Append(trace, "context")
    /\ \E order \in HashOrders :
          LET built == BuildRagContext(table_context, order)
          IN IF built.raised
             THEN err' = built.value /\ pc' = "raised" /\ UNCHANGED rag_context
             ELSE rag_context' = built.value /\ pc' = "g_prompt" /\ UNCHANGED err
    /\ UNCHANGED <<env_api_key, env_openai_key, api_configured, table_context, question,
                   prompts, llm_calls, raw, sql_query, result, run, first_result>>

\* Step 2
CreatePrompt ==
    /\ pc = "g_prompt"
    /\ prompts' = <<SystemPrompt, UserPrompt(question, rag_context)>>
    /\ trace' = Append(trace, "prompt")
    /\ pc' = "g_call"
    /\ UNCHANGED <<env_api_key, env_openai_key, api_configured, table_context, question,
                   rag_context, llm_calls, raw, sql_query, err, result, run, first_result>>

\* Step 3, the call returning: _call_llm returns the stripped content.
CallLLMReturns ==
    /\ pc = "g_call"
    /\ \E content \in Replies : raw' = Strip(content)
    /\ llm_calls' = llm_calls + 1
    /\ trace' = Append(trace, "call")
    /\ pc' = "g_validate"
    /\ UNCHANGED <<env_api_key, env_openai_key, api_configured, table_context, question,
                   rag_context, prompts, sql_query, err, result, run, first_result>>

\* CallLLMFails with the failed call tried again (up to a third call).
CallLLMFailsRetried ==
    /\ pc = "g_call"
    /\ llm_calls < 3
    /\ llm_calls' = llm_calls + 1
    /\ pc' = "g_call"
    /\ UNCHANGED <<env_api_key, env_openai_key, api_configured, table_context, question,
                   rag_context, prompts, trace, raw, sql_query, err, result, run, first_result>>

\* Step 3, the call failing: _call_llm wraps the exception, generate_sql
\* re-raises it.
CallLLMFails ==
    /\ pc = "g_call"
    /\ \E e \in CallErrors : err' = ErrCallFailed(e)
    /\ llm_calls' = llm_calls + 1
    /\ trace' = Append(trace, "call")
    /\ pc' = "raised"
    /\ UNCHANGED <<env_api_key, env_openai_key, api_configured, table_context, question,
                   rag_context, prompts, raw, sql_query, result, run, first_result>>

\* Step 4: the call of _validate_and_clean_sql.
Validate ==
    /\ pc = "g_validate"
    /\ sql_query' = raw
    /\ trace' = Append(trace, "validate")
    /\ pc' = "v_sentinel"
    /\ UNCHANGED <<env_api_key, env_openai_key, api_configured, table_context, question,
                   rag_context, prompts, llm_calls, raw, err, result, run, first_result>>

-----------------------------------------------------------------------------
(* The steps of _validate_and_clean_sql *)

outer == <<env_api_key, env_openai_key, api_configured, table_context, question,
           rag_context, prompts, trace, llm_calls, raw, run, first_result>>

\* The step rewrites the text and goes on to `next`.
Rewrite(text, next) ==
    /\ sql_query' = text
    /\ pc' = next
    /\ UNCHANGED <<outer, err, result>>

\* The step raises ValueError(message).
Raise(message) ==
    /\ err' = message
    /\ pc' = "raised"
    /\ UNCHANGED <<outer, sql_query, result>>

\* strip() and the two sentinel tests.
V_Sentinel ==
    /\ pc = "v_sentinel"
    /\ LET s == Strip(sql_query)
       IN /\ sql_query' = s
          /\ IF SentinelError(s) # "" THEN err' = SentinelError(s) /\ pc' = "raised"
             ELSE err' = err /\ pc' = "v_fences"
    /\ UNCHANGED <<outer, result>>

V_Fences ==
    /\ pc = "v_fences"
    /\ Rewrite(StripFences(sql_query), "v_thinking")

\* One iteration of the while loop.
V_ThinkingLoop ==
    /\ pc = "v_thinking"
    /\ Contains(sql_query, ThinkOpen)
    /\ LET t == ThinkingStep(sql_query)
       IN /\ Len(t) <= Len(sql_query) \/ Len(t) <= MaxText
          /\ Rewrite(t, IF ThinkingBreaks(sql_query) THEN "v_tags" ELSE "v_thinking")

\* The loop condition is false.
V_ThinkingExit ==
    /\ pc = "v_thinking"
    /\ ~Contains(sql_query, ThinkOpen)
    /\ Rewrite(sql_query, "v_tags")

V_Tags ==
    /\ pc = "v_tags"
    /\ Rewrite(ReSubTags(sql_query), "v_prefixes")

V_Prefixes ==
    /\ pc = "v_prefixes"
    /\ Rewrite(StripPrefixes(sql_query), "v_restore")

V_Restore ==
    /\ pc = "v_restore"
    /\ Rewrite(RestoreSelect(sql_query), "v_split")

V_Split ==
    /\ pc = "v_split"
    /\ Rewrite(FirstStatement(sql_query), "v_normalize")

V_Normalize ==
    /\ pc = "v_normalize"
    /\ Rewrite(NormalizeWs(sql_query), "v_keywords")

\* V_Keywords searching sql_query instead of its upper-cased copy.
V_KeywordsCaseSensitive ==
    /\ pc = "v_keywords"
    /\ LET hits == KeywordHits(sql_query)
       IN IF hits # {} THEN Raise(ErrDangerous(dangerous_keywords[FirstOf(hits)]))
          ELSE Rewrite(sql_query, "v_entry")

V_Keywords ==
    /\ pc = "v_keywords"
    /\ LET hits == KeywordHits(Upper(sql_query))
       IN IF hits # {} THEN Raise(ErrDangerous(dangerous_keywords[FirstOf(hits)]))
          ELSE Rewrite(sql_query, "v_entry")

V_EntryPoint ==
    /\ pc = "v_entry"
    /\ IF ~StartsWith(Upper(sql_query), "SELECT") THEN Raise(ErrOnlySelect)
       ELSE Rewrite(sql_query, "v_injection")

V_Injection ==
    /\ pc = "v_injection"
    /\ LET hits == PatternHits(sql_query)
       IN IF hits # {} THEN Raise(ErrUnsafePattern(injection_patterns[FirstOf(hits)]))
          ELSE Rewrite(sql_query, "v_table")

V_TableRef ==
    /\ pc = "v_table"
    /\ IF ~ReferencesTable(sql_query, table_name) THEN Raise(ErrTableRef(table_name))
       ELSE Rewrite(sql_query, "v_terminate")

V_Terminate ==
    /\ pc = "v_terminate"
    /\ Rewrite(EnsureSemicolon(sql_query), "v_parens")

\* The parenthesis count, then return sql_query.
V_Parens ==
    /\ pc = "v_parens"
    /\ IF ~BalancedParens(sql_query) THEN Raise(ErrParens)
       ELSE /\ result' = sql_query
            /\ pc' = "returned"
            /\ UNCHANGED <<outer, sql_query, err>>

ValidateAndCleanSql ==
    \/ V_Sentinel \/ V_Fences \/ V_ThinkingLoop \/ V_ThinkingExit \/ V_Tags
    \/ V_Prefixes \/ V_Restore \/ V_Split \/ V_Normalize \/ V_Keywords
    \/ V_EntryPoint \/ V_Injection \/ V_TableRef \/ V_Terminate \/ V_Parens

\* The validator called again, on the value it returned, for the same table.
Revalidate ==
    /\ pc = "returned"
    /\ run = 1
    /\ raw' = result
    /\ sql_query' = result
    /\ first_result' = result
    /\ result' = None
    /\ run' = 2
    /\ pc' = "v_sentinel"
    /\ UNCHANGED <<env_api_key, env_openai_key, api_configured, table_context, question,
                   rag_context, prompts, trace, llm_calls, err>>

-----------------------------------------------------------------------------
(* Specifications *)

\* The service before construction, with a request to come.
Init ==
    /\ env_api_key \in ApiKeys
    /\ env_openai_key \in BOOLEAN
    /\ api_configured = FALSE
    /\ pc = "init"
    /\ table_context \in TableContexts
    /\ question \in Questions
    /\ rag_context = ""
    /\ prompts = <<"", "">>
    /\ trace = <<>>
    /\ llm_calls = 0
    /\ raw = ""
    /\ sql_query = ""
    /\ err = ""
    /\ result = None
    /\ run = 1
    /\ first_result = None

Next ==
    \/ Construct \/ GenerateSql \/ CheckConfigured \/ BuildContext \/ CreatePrompt
    \/ CallLLMReturns \/ CallLLMFails \/ Validate
    \/ ValidateAndCleanSql

Spec == Init /\ [][Next]_vars

\* _validate_and_clean_sql called directly on a raw text and a table name.
InitValidate ==
    /\ env_api_key = "sk-or-v1"
    /\ env_openai_key = FALSE
    /\ api_configured = TRUE
    /\ pc = "v_sentinel"
    /\ table_context \in TableContexts
    /\ question \in Questions
    /\ rag_context = ""
    /\ prompts = <<"", "">>
    /\ trace = <<>>
    /\ llm_calls = 0
    /\ raw \in RawInputs
    /\ sql_query = raw
    /\ err = ""
    /\ result = None
    /\ run = 1
    /\ first_result = None

NextValidate == ValidateAndCleanSql \/ Revalidate

SpecValidate == InitValidate /\ [][NextValidate]_vars

\* _build_rag_context, then _create_prompt, on a table context and a question.
InitPrompt ==
    /\ env_api_key = "sk-or-v1"
    /\ env_openai_key = FALSE
    /\ api_configured = TRUE
    /\ pc = "g_context"
    /\ table_context \in TableContexts \cup SampleContexts
    /\ question \in Questions
    /\ rag_context = ""
    /\ prompts = <<"", "">>
    /\ trace = <<>>
    /\ llm_calls = 0
    /\ raw = ""
    /\ sql_query = ""
    /\ err = ""
    /\ result = None
    /\ run = 1
    /\ first_result = None

NextPrompt == BuildContext \/ CreatePrompt

SpecPrompt == InitPrompt /\ [][NextPrompt]_vars

-----------------------------------------------------------------------------
(* Properties of _validate_and_clean_sql (under SpecValidate) *)

\* The validator has returned or raised.
Finished == pc \in {"returned", "raised"}

\* The steps after the keyword check that can still follow it.
PastKeywordCheck == pc \in {"v_entry", "v_injection", "v_table", "v_terminate", "v_parens", "returned"}

BlockedWords == {dangerous_keywords[i] : i \in 1..Len(dangerous_keywords)}

\* The words of a text: its maximal runs of letters, digits and underscores;
\* w is the word being read.
RECURSIVE WordsFrom(_, _)
WordsFrom(s, w) ==
    IF s = "" THEN (IF w = "" THEN {} ELSE {w})
    ELSE IF IsWordChar(Ch(s, 1)) THEN WordsFrom(SubSeq(s, 2, Len(s)), w \o Ch(s, 1))
    ELSE (IF w = "" THEN {} ELSE {w}) \cup WordsFrom(SubSeq(s, 2, Len(s)), "")

Words(s) == WordsFrom(s, "")

\* The blocked keywords that are words of s, in any letter case.
BlockedIn(s) == {Upper(w) : w \in Words(s)} \cap BlockedWords

IsDangerousError(e) == \E k \in BlockedWords : e = ErrDangerous(k)

\* The statements of the input grammar that are valid SELECT statements.
ValidSelects ==
    { core \o clause :
        core \in {"SELECT * FROM t", "select count(id) from orders"},
        clause \in {"", " WHERE a < 1 AND b > 2", " WHERE c = 'x;y'", " WHERE exp_date = 1",
                    " ORDER BY created_at, updated_by, dropdown"} }

\* A text with its whitespace runs collapsed to single spaces and a trailing ";".
RECURSIVE Collapsed(_)
Collapsed(s) ==
    IF s = "" THEN ""
    ELSE IF IsSpace(Ch(s, 1))
         THEN (IF Len(s) >= 2 /\ IsSpace(Ch(s, 2)) THEN "" ELSE " ") \o Collapsed(SubSeq(s, 2, Len(s)))
    ELSE Ch(s, 1) \o Collapsed(SubSeq(s, 2, Len(s)))

WithTerminator(s) == IF s # "" /\ Ch(s, Len(s)) = ";" THEN s ELSE s \o ";"

\* C1: every valid SELECT statement that holds no blocked keyword and names the
\* target table is returned unchanged but for collapsed whitespace and a
\* trailing ";" (comparison operators, a ";" inside a literal and identifiers
\* such as exp_date included).
C1_ValidSelectReturnedUnchanged ==
    (/\ Finished
     /\ run = 1
     /\ raw \in ValidSelects
     /\ BlockedIn(raw) = {}
     /\ Contains(Lower(raw), Lower(table_name)))
    => (pc = "returned" /\ result = WithTerminator(Collapsed(raw)))

\* C2: a blocked keyword that is a word of the text reaching the keyword check,
\* in any letter case, makes the validator fail with the error naming a blocked
\* keyword that is a word of that text; no text that passes the check, and no
\* returned string, has a blocked keyword as a word.
C2_BlockedKeywordRejected ==
    /\ PastKeywordCheck => BlockedIn(sql_query) = {}
    /\ pc = "returned" => BlockedIn(result) = {}
    /\ (pc = "raised" /\ BlockedIn(sql_query) # {})
          => \E k \in BlockedIn(sql_query) : err = ErrDangerous(k)

\* C2's case: a lower-case keyword inside the text is reported in upper case.
C2_Witness ==
    /\ pc = "raised"
    /\ err = ErrDangerous("CREATE")
    /\ Contains(sql_query, "create new record")
    /\ ~Contains(sql_query, "CREATE")

\* The first ";"-delimited fragment of s that is not blank, trimmed: skip the
\* leading blanks and terminators, read up to the next terminator.
RECURSIVE SkipBlankFragments(_)
SkipBlankFragments(s) ==
    IF s # "" /\ (IsSpace(Ch(s, 1)) \/ Ch(s, 1) = ";")
    THEN SkipBlankFragments(SubSeq(s, 2, Len(s))) ELSE s

FirstFragment(s) ==
    LET t == SkipBlankFragments(s)
        semis == {i \in 1..Len(t) : Ch(t, i) = ";"}
    IN RStrip(IF semis = {} THEN t
              ELSE SubSeq(t, 1, (CHOOSE i \in semis : \A j \in semis : i <= j) - 1))

\* C3: when the text reaching single-statement extraction holds a ";", that
\* step keeps the first non-blank fragment and a ";" and nothing else; it comes
\* before the keyword check, which so never sees text after the first
\* terminator; `SELECT * FROM t; DROP TABLE t;` for table t is returned as
\* `SELECT * FROM t;`.
C3_OnlyFirstStatementScanned ==
    /\ []((Finished /\ run = 1 /\ table_name = "t"
             /\ raw \in {"SELECT * FROM t; DROP TABLE t;", "* FROM t; DROP TABLE t;"})
          => (pc = "returned" /\ result = "SELECT * FROM t;"))
    /\ []((pc = "v_keywords" /\ Contains(sql_query, ";"))
          => (Count(sql_query, ";") = 1 /\ EndsWith(sql_query, ";")))
    /\ [][(pc = "v_split" /\ Contains(sql_query, ";"))
          => (sql_query' = FirstFragment(sql_query) \o ";" /\ pc' = "v_normalize")]_vars
    /\ [][(pc' = "v_keywords" => pc = "v_normalize") /\ (pc' = "v_normalize" => pc = "v_split")]_vars

\* C3's case: the smuggled DROP is gone from the returned statement.
C3_Witness ==
    /\ pc = "returned"
    /\ run = 1
    /\ raw = "SELECT * FROM t; DROP TABLE t;"
    /\ result = "SELECT * FROM t;"

\* C4: a raw text that is a sentinel once trimmed fails with that sentinel's
\* error, at the first step and with nothing but the trimming applied, and
\* returns no query, whatever the table; the two errors differ and no other
\* text raises either.
C4_SentinelFailsFirst ==
    /\ ErrInvalidRequest # ErrOutOfScope
    /\ \A sentinel \in {INVALID_REQUEST, OUT_OF_SCOPE} :
          Strip(raw) = sentinel
          => /\ result = None
             /\ \/ pc = "v_sentinel"
                \/ /\ pc = "raised"
                   /\ sql_query = sentinel
                   /\ err = (IF sentinel = INVALID_REQUEST THEN ErrInvalidRequest ELSE ErrOutOfScope)
    /\ err = ErrInvalidRequest => Strip(raw) = INVALID_REQUEST
    /\ err = ErrOutOfScope => Strip(raw) = OUT_OF_SCOPE

\* C4's case: a sentinel with whitespace around it has been refused.
C4_Witness ==
    /\ pc = "raised"
    /\ err = ErrOutOfScope
    /\ raw # Strip(raw)
    /\ table_name = "orders"

\* C5: a second run of the validator on the value the first run returned, for
\* the same table, returns that value again (and does not loop on it).
C5_Idempotent ==
    /\ (run = 2 /\ Finished) => (pc = "returned" /\ result = first_result)
    /\ (run = 2 /\ pc = "v_thinking") => ~Contains(sql_query, ThinkOpen)

\* C5's case: the second run has returned.
C5_Witness ==
    /\ run = 2
    /\ pc = "returned"
    /\ table_name = "orders"
    /\ first_result = "select count(id) from orders;"
    /\ result = first_result

\* The table a plain statement of the input grammar selects from.
TableStatements == {"SELECT * FROM t", "select count(id) from orders", "SELECT * FROM other_table"}

TableOf(statement) ==
    LET words == SplitWs(IF EndsWith(statement, ";")
                         THEN SubSeq(statement, 1, Len(statement) - 1) ELSE statement)
    IN words[Len(words)]

\* C6: a statement that selects from another table than the target fails with
\* the table-reference error.
C6_OtherTableRejected ==
    (/\ Finished
     /\ run = 1
     /\ raw \in {st \o t : st \in TableStatements, t \in {"", ";"}}
     /\ Lower(TableOf(raw)) # Lower(table_name))
    => (pc = "raised" /\ err = ErrTableRef(table_name))

\* A text without its '...' literals; inside tells whether a literal is open.
RECURSIVE OutsideLiteralsFrom(_, _)
OutsideLiteralsFrom(s, inside) ==
    IF s = "" THEN ""
    ELSE IF Ch(s, 1) = "'" THEN OutsideLiteralsFrom(SubSeq(s, 2, Len(s)), ~inside)
    ELSE (IF inside THEN "" ELSE Ch(s, 1)) \o OutsideLiteralsFrom(SubSeq(s, 2, Len(s)), inside)

OutsideLiterals(s) == OutsideLiteralsFrom(s, FALSE)

\* C7: a blocked keyword that is a word only inside a string literal does not
\* make the keyword check fail, and a valid SELECT on the target table holding
\* the literal 'create new record' is returned.
C7_KeywordInLiteralAccepted ==
    /\ (pc = "raised" /\ BlockedIn(OutsideLiterals(sql_query)) = {}) => ~IsDangerousError(err)
    /\ (Finished /\ run = 1 /\ table_name = "t"
          /\ raw = "SELECT * FROM t WHERE n = 'create new record'")
       => pc = "returned"

\* C8: the keyword check fails only on a blocked keyword that is a word of the
\* text: a keyword whose letters occur only inside a longer identifier (a
\* letter, digit or underscore next to it) is never the one reported, for each
\* of the blocked keywords.
C8_IdentifiersNotRejected ==
    /\ \A k \in BlockedWords : (pc = "raised" /\ err = ErrDangerous(k)) => k \in BlockedIn(sql_query)
    /\ (Finished /\ run = 1 /\ raw \in KeywordStatements /\ BlockedIn(raw) = {})
       => ~IsDangerousError(err)

\* C8's case: identifiers holding CREATE, UPDATE and DROP passed the check.
C8_Witness ==
    /\ pc = "returned"
    /\ run = 1
    /\ Contains(result, "created_at, updated_by, dropdown")

-----------------------------------------------------------------------------
(* Properties of generate_sql (under Spec) *)

Stages == <<"context", "prompt", "call", "validate">>

InValidator ==
    pc \in {"v_sentinel", "v_fences", "v_thinking", "v_tags", "v_prefixes", "v_restore",
            "v_split", "v_normalize", "v_keywords", "v_entry", "v_injection", "v_table",
            "v_terminate", "v_parens"}

IsCallFailure(e) == \E c \in CallErrors : e = ErrCallFailed(c)

\* C9: with OPENROUTER_API_KEY unset, generate_sql raises the not-configured
\* error before building the context, composing the prompts or calling the
\* model: _call_llm is never called.
C9_MissingKeyNeverCallsModel ==
    env_api_key = None
    => /\ llm_calls = 0
       /\ trace = <<>>
       /\ pc \in {"init", "init_failed", "ready", "g_check", "raised"}
       /\ pc = "raised" => err = ErrNotConfigured

\* C10: past the configuration check the stages are entered in the order
\* context, prompt, call, validation; the model is called once and never
\* again; a failed call raises the call failure with the validator not entered
\* and nothing returned; a failed validation returns nothing; a query is
\* returned only after all four stages.
C10_StagesInOrderOneCall ==
    /\ Len(trace) <= Len(Stages) /\ trace = SubSeq(Stages, 1, Len(trace))
    /\ llm_calls = (IF Len(trace) >= 3 THEN 1 ELSE 0)
    /\ pc = "g_context" => trace = <<>>
    /\ pc = "g_prompt" => Len(trace) = 1
    /\ pc = "g_call" => Len(trace) = 2
    /\ pc = "g_validate" => Len(trace) = 3
    /\ InValidator => (trace = Stages /\ result = None /\ err = "")
    /\ pc = "returned" => (trace = Stages /\ llm_calls = 1 /\ err = "" /\ result = sql_query)
    /\ pc = "raised" => (result = None /\ err # "")
    /\ IsCallFailure(err) => (pc = "raised" /\ Len(trace) = 3 /\ result = None)
    /\ (pc = "raised" /\ Len(trace) = 3) => IsCallFailure(err)

\* C10's case: the model call failed and the failure reached the caller.
C10_Witness ==
    /\ pc = "raised"
    /\ err = ErrCallFailed("Connection error.")
    /\ llm_calls = 1
    /\ trace = <<"context", "prompt", "call">>

-----------------------------------------------------------------------------
(* Properties of _build_rag_context and _create_prompt (under SpecPrompt) *)

\* C11: the prompt pair built for a table context and a question is the pair
\* every process builds for them, whatever the order it iterates a set of str
\* in (string columns with several distinct sample values, and more than 5,
\* included); the system prompt is one text for every context and question.
C11_PromptsDeterministic ==
    pc = "g_call"
    => /\ prompts[1] = SystemPrompt
       /\ \A order \in HashOrders :
             prompts[2] = UserPrompt(question, BuildRagContext(table_context, order).value)

-----------------------------------------------------------------------------
(* Properties of _validate_and_clean_sql (under SpecValidate), continued *)

\* C12: every returned string holds exactly one ";", as its last character,
\* whether the raw text held no terminator, one or several (leading and
\* consecutive ones included).
C12_SingleTerminator ==
    pc = "returned" => (Count(result, ";") = 1 /\ EndsWith(result, ";"))

\* C12's case: a raw text of leading, consecutive and trailing terminators.
C12_Witness ==
    /\ pc = "returned"
    /\ run = 1
    /\ raw = ";; DROP TABLE t;"
    /\ result = "SELECT;"

-----------------------------------------------------------------------------
(* Properties of _build_rag_context (under SpecPrompt), continued *)

\* The column loop meets a declared type that is null.
HasNullType(tc) == \E i \in 1..Len(tc.columns) : tc.columns[i].type = None

\* C13: _build_rag_context raises on no table context: without sample rows,
\* and with rows that are short, no rows at all, or carry keys that are no
\* column, it returns a text that is not empty and holds the table name and
\* the row count, with a line for each of the first rows; where the detailed
\* rendering fails it returns the fallback text.
C13_ContextNeverRaises ==
    /\ pc # "raised"
    /\ pc \in {"g_prompt", "g_call"}
       => /\ rag_context # ""
          /\ StartsWith(rag_context, "Table: " \o table_name \o "\nTotal rows: "
                                       \o ToStr(table_context.row_count) \o "\n")
          /\ ~HasNullType(table_context)
             => \A i \in 1..Len(table_context.sample_data) :
                   i <= RowWindow => Contains(rag_context, "\nRow " \o ToStr(i) \o ": ")
          /\ HasNullType(table_context) => EndsWith(rag_context, "Using basic fallback.")

\* C13's case: a short row, a row with a key that is no column and a row that
\* is None have been rendered as they print.
C13_Witness ==
    /\ pc = "g_prompt"
    /\ Contains(rag_context, "Row 1: ['West']\nRow 2: {'region': 'North', 'zone': 1}\nRow 3: None\n")

-----------------------------------------------------------------------------
(* Properties of _validate_and_clean_sql (under SpecValidate), continued *)

\* C14: the validator returns or raises on every raw text: the loop over the
\* reasoning blocks comes to an end for every arrangement of openers and
\* closers (a closer before the first opener included).  Each step of the
\* validator is determined by its state, so it comes to an end only if, until
\* it has returned or raised, its next step changes the state: an iteration
\* that rebuilds the text it started from is repeated for ever.
C14_Terminates == Finished \/ ENABLED <<NextValidate>>_vars

\* The text the reasoning-block loop starts from.
ThinkingInput == StripFences(Strip(raw))

\* Every closer of s follows an opener it closes, and no block holds an opener.
RECURSIVE ProperlyPaired(_)
ProperlyPaired(s) ==
    LET o == Find(s, ThinkOpen)
        inner == From(s, o + Len(ThinkOpen))
        c == Find(inner, ThinkClose)
    IN IF o = -1 THEN ~Contains(s, ThinkClose)
       ELSE /\ ~Contains(SubSeq(s, 1, o + Len(ThinkOpen) - 1), ThinkClose)
            /\ c # -1 => /\ ~Contains(SubSeq(inner, 1, c + Len(ThinkClose) - 1), ThinkOpen)
                         /\ ProperlyPaired(From(inner, c + Len(ThinkClose)))

\* s without its blocks, each from its opener through the end of its closer;
\* cut at an opener that has no closer.
RECURSIVE WithoutBlocks(_)
WithoutBlocks(s) ==
    LET o == Find(s, ThinkOpen)
        inner == From(s, o + Len(ThinkOpen))
        c == Find(inner, ThinkClose)
    IN IF o = -1 THEN s
       ELSE SubSeq(s, 1, o)
            \o (IF c = -1 THEN "" ELSE WithoutBlocks(From(inner, c + Len(ThinkClose))))

\* C15: for a text whose blocks are properly paired, the text leaving the
\* reasoning-block loop is the text entering it without the blocks, each from
\* its opener through the end of its closer, every other character kept (also
\* the one right after a closer); an opener without closer cuts the text there.
C15_ExactlyBlocksRemoved ==
    (pc = "v_tags" /\ ProperlyPaired(ThinkingInput))
    => sql_query = WithoutBlocks(ThinkingInput)

\* C16: from prefix restoration on the text begins with SELECT in some letter
\* case, so does every returned string, and the entry-point error is raised
\* for no raw text: a reply beginning with WITH is rewritten, not refused.
C16_AlwaysBeginsWithSelect ==
    /\ pc \in {"v_split", "v_normalize", "v_keywords", "v_entry", "v_injection",
               "v_table", "v_terminate", "v_parens"}
       => StartsWith(Upper(sql_query), "SELECT")
    /\ pc = "returned" => StartsWith(Upper(result), "SELECT")
    /\ err # ErrOnlySelect

\* C16's case: the reply WITH came back as a SELECT statement.
C16_Witness ==
    /\ pc = "returned"
    /\ run = 1
    /\ raw = "WITH"
    /\ result = "SELECT WITH;"

=============================================================================
